---- MODULE Spec2Model ----
(***************************************************************************)
(* Model of src/bskyServer.ts: the feed-to-Bluesky pipeline.               *)
(*                                                                         *)
(* One run of processRSSFeed is a sequence of steps, one per await of the  *)
(* code: each action below is the synchronous code between two awaits.     *)
(* Several runs may be in flight at once, because the cron job fires       *)
(* processRSSFeed without waiting for the previous call to return.         *)
(*                                                                         *)
(* Time is counted in minutes (Date.now() / 60000): getRandomInterval      *)
(* returns a whole number of minutes times 60 * 1000.                      *)
(*                                                                         *)
(* Spec is the process with overlapping runs, FairSpec adds that every     *)
(* awaited call completes, SeqSpec has runs that do not overlap, LongSpec  *)
(* is SeqSpec on a feed of nine entries, and TitleSpec is the calls of     *)
(* truncateTitle over short titles and long urls.                          *)
(***************************************************************************)
EXTENDS Integers, Sequences, FiniteSets, TLC

\* ------------------------------------------------------------- bounds
\* Calls of processRSSFeed over the life of the process.
MaxRuns == 2
\* Steps of the clock over the life of the process.
MaxTicks == 1
\* The clock when the process starts, in minutes since the epoch.
StartTime == 120
\* Characters of a title, as the feed gives it.
MaxTitleLen == 5

\* ------------------------------------------------------------- inputs
\* Entry identifiers of the feed.
Ids == {"a1", "a2"}
\* What the feed URL may serve: the ordered entry ids of the document.
Feeds == {<<>>, <<"a1", "a2">>, <<"a2", "a2">>}
\* How far the clock moves in one step, in minutes.
TickSteps == {30}
\* The calls of processRSSFeed that may be in flight at once.
Runs == {1, 2}

VARIABLES
    now,        \* the clock, Date.now() in minutes
    ticks,      \* steps the clock has made
    file,       \* posted_items.json
    session,    \* the agent holds a session (a login succeeded)
    nRuns,      \* calls of processRSSFeed so far
    run,        \* per slot: the locals of one call of processRSSFeed
    posted,     \* history: ids that returned calls passed to agent.post
    lastSaved,  \* history: the items of the last run that ended on a store write
    trunc       \* a call of truncateTitle: its arguments and what it returned

vars == <<now, ticks, file, session, nRuns, run, posted, lastSaved, trunc>>

env == <<now, ticks>>
hist == <<posted, lastSaved>>

\* ------------------------------------------------------------- store
\* A PostedItems value. defG / defT say whether the guids and lastFetchTime
\* properties are defined: JSON.parse returns whatever the file holds.
PostedItems(g, t) == [guids |-> g, lastFetchTime |-> t, defG |-> TRUE, defT |-> TRUE]

\* The catch branch of loadPostedItems.
EmptyItems == PostedItems(<<>>, 0)

\* The parse of a file holding "{}".
BareItems == [guids |-> <<>>, lastFetchTime |-> 0, defG |-> FALSE, defT |-> FALSE]

MissingFile == [state |-> "missing", data |-> EmptyItems]
CorruptFile == [state |-> "corrupt", data |-> EmptyItems]
JsonFile(items) == [state |-> "json", data |-> items]

\* loadPostedItems: readFile throws on a missing file, JSON.parse on a
\* corrupt one; both are caught.
loadPostedItems(f) == IF f.state = "json" THEN f.data ELSE EmptyItems

\* Mutant: no entry is taken for recorded.
includes_Never(guids, guid) == FALSE

\* Array.prototype.includes on postedItems.guids.
includes(guids, guid) == \E i \in DOMAIN guids : guids[i] = guid

Range(s) == {s[i] : i \in DOMAIN s}

\* ------------------------------------------------------------- title
\* The characters of a title: a letter, a space, the two angle brackets,
\* and the entity "&gt;", which is four characters of the title as the feed
\* gives it and one character once decoded.
Chars == {"a", " ", "<", ">", "&gt;"}

\* The url lengths of the calls: those that leave room for a title of about
\* the lengths above, and those that leave none.
UrlLengths == 291..297

\* s.trim()
RECURSIVE TrimStart(_)
TrimStart(s) ==
    IF s # <<>> /\ Head(s) = " " THEN TrimStart(Tail(s)) ELSE s

RECURSIVE TrimEnd(_)
TrimEnd(s) ==
    IF s # <<>> /\ s[Len(s)] = " " THEN TrimEnd(SubSeq(s, 1, Len(s) - 1)) ELSE s

Trim(s) == TrimEnd(TrimStart(s))

\* title.replace(/<[^>]*>/g, ''): from the left, a "<" that some ">" follows
\* is removed with everything up to the first such ">"; a "<" that no ">"
\* follows stays.
RECURSIVE StripTags(_)
StripTags(s) ==
    IF s = <<>> THEN <<>>
    ELSE IF Head(s) = "<" /\ \E j \in 2..Len(s) : s[j] = ">"
         THEN LET j == CHOOSE k \in 2..Len(s) :
                         s[k] = ">" /\ \A l \in 2..(k - 1) : s[l] # ">"
              IN StripTags(SubSeq(s, j + 1, Len(s)))
         ELSE <<Head(s)>> \o StripTags(Tail(s))

\* decode of html-entities: an entity becomes the character it names.
decode(s) == [i \in DOMAIN s |-> IF s[i] = "&gt;" THEN ">" ELSE s[i]]

\* s.substring(0, n): n below 0 counts as 0, n above the length as the length.
substring(s, n) ==
    SubSeq(s, 1, IF n < 0 THEN 0 ELSE IF n > Len(s) THEN Len(s) ELSE n)

\* Line 72.
decodedTitle(title) == decode(Trim(StripTags(title)))

\* Mutant: the budget leaves no room for the three dots.
truncateTitle_NoReserve(title, urlLength) ==
    LET maxLength == 300 - urlLength - 2 IN
      IF Len(decodedTitle(title)) <= maxLength
      THEN decodedTitle(title)
      ELSE Trim(substring(decodedTitle(title), maxLength)) \o <<".", ".", ".">>

\* truncateTitle, lines 67-80.
truncateTitle(title, urlLength) ==
    LET maxLength == 300 - urlLength - 2 - 3 IN
      IF Len(decodedTitle(title)) <= maxLength
      THEN decodedTitle(title)
      ELSE Trim(substring(decodedTitle(title), maxLength)) \o <<".", ".", ".">>

\* No call of truncateTitle is looked at.
NoTruncation == [title |-> <<>>, urlLength |-> 0, returned |-> FALSE, text |-> <<>>]

\* ------------------------------------------------------------- gate
minMinutes == 30
maxMinutes == 60

\* Mutant: the upper end of the range is twice what the code says.
getRandomInterval_Wide == minMinutes..(2 * maxMinutes)

\* getRandomInterval: floor(random * (max - min + 1) + min) minutes.
getRandomInterval == minMinutes..maxMinutes

\* currentTime - postedItems.lastFetchTime < getRandomInterval(); with
\* lastFetchTime undefined the difference is NaN and the test is false.
TooSoon(currentTime, items, threshold) ==
    items.defT /\ currentTime - items.lastFetchTime < threshold

\* ------------------------------------------------------------- run
\* lastSaved before any run has ended on a store write.
NoFeed == [some |-> FALSE, items |-> <<>>]
SomeFeed(items) == [some |-> TRUE, items |-> items]

\* The byte lengths sharp may return for the encoded image.
ImageSizes == {900000, 900001}

\* No image buffer is held.
NoBuffer == [size |-> 0, quality |-> 0, encodes |-> 0]

\* The buffer of lines 103-109: the image is resized and encoded once, as
\* PNG at sharp's default quality of 100.
ProcessedImage(size) == [size |-> size, quality |-> 100, encodes |-> 1]

\* The locals of a call of processRSSFeed that has not started, and the
\* bookkeeping kept beside them: imageBuffer (what downloadAndProcessImage
\* returned for the current entry), loaded (the record as loadPostedItems
\* returned it), the calls made for the current entry, pageOk (the try block
\* of lines 250-282 got past the page of the current entry), calls (ids this
\* call passed to agent.post) and pub (ids whose post succeeded in this call).
NoRun == [pc |-> "idle", postedItems |-> EmptyItems, currentTime |-> 0,
          items |-> <<>>, idx |-> 0, thumb |-> "undefined",
          nUpload |-> 0, nUploadLogin |-> 0, uploadLoginOk |-> FALSE,
          nPost |-> 0, nPostLogin |-> 0, postLoginOk |-> FALSE,
          postOk |-> FALSE, pageOk |-> FALSE, imageBuffer |-> NoBuffer,
          loaded |-> EmptyItems, calls |-> {}, pub |-> {}]

\* The locals of an entry's iteration as the loop body starts.
EntryStart(rec, i) ==
    [rec EXCEPT !.idx = i, !.thumb = "undefined",
                !.nUpload = 0, !.nUploadLogin = 0, !.uploadLoginOk = FALSE,
                !.nPost = 0, !.nPostLogin = 0, !.postLoginOk = FALSE,
                !.postOk = FALSE, !.pageOk = FALSE, !.imageBuffer = NoBuffer]

\* Mutant: the loop never skips an entry.
NextIdx_NoSkip(guids, items, i) == i

\* The for loop from position i: entries whose id the record includes are
\* skipped (continue); the first other entry is the one the body runs on.
RECURSIVE NextIdx(_, _, _)
NextIdx(guids, items, i) ==
    IF i > Len(items) THEN i
    ELSE IF includes(guids, items[i]) THEN NextIdx(guids, items, i + 1)
    ELSE i

\* The run after the loop moves to position i: the body starts on the next
\* entry that is not recorded (its page is requested), or the loop ends and
\* savePostedItems is called. guids.includes on an undefined guids throws,
\* which the catch of processRSSFeed logs.
Iterate(rec, i) ==
    IF i <= Len(rec.items) /\ ~rec.postedItems.defG
    THEN [rec EXCEPT !.pc = "failed"]
    ELSE LET j == NextIdx(rec.postedItems.guids, rec.items, i) IN
         IF j > Len(rec.items)
         THEN [EntryStart(rec, j) EXCEPT !.pc = "save"]
         ELSE [EntryStart(rec, j) EXCEPT !.pc = "page"]

\* Mutant: the id is recorded only when the post succeeded.
Push_OnlyIfOk(rec) ==
    IF rec.postOk
    THEN [rec EXCEPT !.postedItems.guids = Append(@, rec.items[rec.idx])]
    ELSE rec

\* postedItems.guids.push(guid)
Push(rec) ==
    [rec EXCEPT !.postedItems.guids = Append(@, rec.items[rec.idx])]

guid(r) == run[r].items[run[r].idx]

\* ------------------------------------------------------------- init
InitFiles == {MissingFile, JsonFile(BareItems),
              JsonFile(PostedItems(<<"a1">>, StartTime - 45))}

Init ==
    /\ now = StartTime
    /\ ticks = 0
    /\ file \in InitFiles
    /\ session = FALSE
    /\ nRuns = 0
    /\ run = [r \in Runs |-> NoRun]
    /\ posted = {}
    /\ lastSaved = NoFeed
    /\ trunc = NoTruncation

\* ------------------------------------------------------------- actions
\* The run of slot r becomes rec.
Step(r, rec) == run' = [run EXCEPT ![r] = rec]

\* processRSSFeed is called: fs.readFile is requested.
Called == [NoRun EXCEPT !.pc = "load"]

\* processRSSFeed is called, by main (line 316) or by a tick of the cron job
\* (line 321), which does not wait for an earlier call to return. main
\* awaits its own call before it starts the job; that call is one that
\* overlaps no other, and when it fails on the feed it leaves the process
\* as it started.
Call(r) ==
    /\ nRuns < MaxRuns
    /\ run[r].pc = "idle"
    /\ \A q \in Runs : q < r => run[q].pc # "idle"
    /\ Step(r, Called)
    /\ nRuns' = nRuns + 1
    /\ UNCHANGED <<trunc, env, file, session, hist>>

\* Lines 214-224: the record is loaded, the clock read, the threshold
\* sampled; the run returns when too little time has passed, or stamps
\* lastFetchTime and requests the feed.
Gate(rec, threshold) ==
    IF TooSoon(rec.currentTime, rec.postedItems, threshold)
    THEN [rec EXCEPT !.pc = "skipped"]
    ELSE [rec EXCEPT !.pc = "fetch",
                     !.postedItems.lastFetchTime = rec.currentTime,
                     !.postedItems.defT = TRUE]

\* Mutant: a run the gate stops stamps and saves the record before it returns.
Load_SkipSaves(r) ==
    /\ run[r].pc = "load"
    /\ \E th \in getRandomInterval :
         LET rec == Gate([run[r] EXCEPT !.postedItems = loadPostedItems(file),
                                        !.loaded = loadPostedItems(file),
                                        !.currentTime = now], th) IN
           /\ Step(r, rec)
           /\ file' = IF rec.pc = "skipped"
                      THEN JsonFile([rec.postedItems EXCEPT
                                       !.lastFetchTime = rec.currentTime])
                      ELSE file
    /\ UNCHANGED <<trunc, env, session, nRuns, hist>>

Load(r) ==
    /\ run[r].pc = "load"
    /\ \E th \in getRandomInterval :
         Step(r, Gate([run[r] EXCEPT !.postedItems = loadPostedItems(file),
                                     !.loaded = loadPostedItems(file),
                                     !.currentTime = now], th))
    /\ UNCHANGED <<trunc, env, file, session, nRuns, hist>>

\* Mutant: the run saves the stamped record before it returns on a feed
\* without items.
FetchFeed_NoItemsSaves(r) ==
    /\ run[r].pc = "fetch"
    /\ LET rec == run[r] IN
         \/ Step(r, [rec EXCEPT !.pc = "failed"]) /\ UNCHANGED file
         \/ /\ Step(r, [rec EXCEPT !.pc = "nofeed"])
            /\ file' = JsonFile(rec.postedItems)
         \/ /\ \E feed \in Feeds : Step(r, Iterate([rec EXCEPT !.items = feed], 1))
            /\ UNCHANGED file
    /\ UNCHANGED <<trunc, env, session, nRuns, hist>>

\* Lines 224-246: parser.parseURL throws, or returns a feed without items,
\* or returns the entries and the loop starts.
FetchFeed(r) ==
    /\ run[r].pc = "fetch"
    /\ LET rec == run[r] IN
         \/ Step(r, [rec EXCEPT !.pc = "failed"])
         \/ Step(r, [rec EXCEPT !.pc = "nofeed"])
         \/ \E feed \in Feeds : Step(r, Iterate([rec EXCEPT !.items = feed], 1))
    /\ UNCHANGED <<trunc, env, file, session, nRuns, hist>>

\* Lines 251-274: the entry's page is fetched and parsed; a failure leaves
\* thumb undefined and postToBluesky is called, else the image is requested.
\* Mutant: a failure on the entry's page is not caught and ends the run.
Page_Abort(r) ==
    /\ run[r].pc = "page"
    /\ \/ Step(r, [run[r] EXCEPT !.pc = "failed"])
       \/ Step(r, [run[r] EXCEPT !.pc = "image", !.pageOk = TRUE])
    /\ UNCHANGED <<trunc, env, file, session, nRuns, hist>>

Page(r) ==
    /\ run[r].pc = "page"
    /\ \/ Step(r, [run[r] EXCEPT !.pc = "post"])
       \/ Step(r, [run[r] EXCEPT !.pc = "image", !.pageOk = TRUE])
    /\ UNCHANGED <<trunc, env, file, session, nRuns, hist>>

\* Mutant: the agent logs in before the first upload is attempted.
Image_LoginFirst(r) ==
    /\ run[r].pc = "image"
    /\ \/ Step(r, [run[r] EXCEPT !.pc = "post"])
       \/ \E size \in ImageSizes :
            Step(r, [run[r] EXCEPT !.pc = "uploadLogin",
                                   !.imageBuffer = ProcessedImage(size)])
    /\ UNCHANGED <<trunc, env, file, session, nRuns, hist>>

\* downloadAndProcessImage: null on any failure, else the buffer, which
\* uploadImageToBluesky is called with.
Image(r) ==
    /\ run[r].pc = "image"
    /\ \/ Step(r, [run[r] EXCEPT !.pc = "post"])
       \/ \E size \in ImageSizes :
            Step(r, [run[r] EXCEPT !.pc = "upload",
                                   !.imageBuffer = ProcessedImage(size)])
    /\ UNCHANGED <<trunc, env, file, session, nRuns, hist>>

\* Mutant: a failed upload is retried without the login.
Upload_NoLogin(r) ==
    /\ run[r].pc = "upload"
    /\ LET rec == [run[r] EXCEPT !.nUpload = @ + 1, !.imageBuffer = NoBuffer] IN
         \/ session /\ Step(r, [rec EXCEPT !.thumb = "blob", !.pc = "post"])
         \/ Step(r, [rec EXCEPT !.pc = "upload2"])
    /\ UNCHANGED <<trunc, env, file, session, nRuns, hist>>

\* Lines 124-129: the first agent.uploadBlob. The length of the buffer is
\* of no effect on the run from here on, and is kept no longer.
Upload(r) ==
    /\ run[r].pc = "upload"
    /\ LET rec == [run[r] EXCEPT !.nUpload = @ + 1, !.imageBuffer = NoBuffer] IN
         \/ session /\ Step(r, [rec EXCEPT !.thumb = "blob", !.pc = "post"])
         \/ Step(r, [rec EXCEPT !.pc = "uploadLogin"])
    /\ UNCHANGED <<trunc, env, file, session, nRuns, hist>>

\* Lines 130-134: agent.login of the upload flow; a throw leaves the inner
\* catch block and the outer catch returns null.
UploadLogin(r) ==
    /\ run[r].pc = "uploadLogin"
    /\ LET rec == [run[r] EXCEPT !.nUploadLogin = @ + 1] IN
         \/ /\ Step(r, [rec EXCEPT !.uploadLoginOk = TRUE, !.pc = "upload2"])
            /\ session' = TRUE
         \/ /\ Step(r, [rec EXCEPT !.thumb = "null", !.pc = "post"])
            /\ UNCHANGED session
    /\ UNCHANGED <<trunc, env, file, nRuns, hist>>

\* Lines 135-151: the second agent.uploadBlob.
Upload2(r) ==
    /\ run[r].pc = "upload2"
    /\ LET rec == [run[r] EXCEPT !.nUpload = @ + 1, !.pc = "post"] IN
         \/ session /\ Step(r, [rec EXCEPT !.thumb = "blob"])
         \/ Step(r, [rec EXCEPT !.thumb = "null"])
    /\ UNCHANGED <<trunc, env, file, session, nRuns, hist>>

\* The embed of lines 176-184 carries thumb when it is neither undefined
\* nor null.
HasThumb(rec) == rec.thumb = "blob"

\* An agent.post call is made for the current entry.
PostCall(rec) ==
    [rec EXCEPT !.nPost = @ + 1, !.calls = @ \cup {rec.items[rec.idx]}]

\* The run once postToBluesky has returned: line 292 records the id and
\* line 296 starts the pacing delay.
Posted(rec) == [Push(rec) EXCEPT !.pc = "sleep"]

\* The run once postToBluesky has built the embed: thumb, the image buffer
\* and the bookkeeping of the page and the upload are read no more.
Embedded(rec) ==
    [rec EXCEPT !.thumb = "undefined", !.imageBuffer = NoBuffer,
                !.pageOk = FALSE,
                !.nUpload = 0, !.nUploadLogin = 0, !.uploadLoginOk = FALSE]

\* Mutant: a failed post is retried without the login.
Post_NoLogin(r) ==
    /\ run[r].pc = "post"
    /\ LET rec == PostCall(Embedded(run[r])) IN
         \/ session /\ Step(r, Posted([rec EXCEPT !.postOk = TRUE,
                                                  !.pub = @ \cup {guid(r)}]))
         \/ Step(r, [rec EXCEPT !.pc = "post2"])
    /\ UNCHANGED <<trunc, env, file, session, nRuns, hist>>

\* Lines 188-193: the first agent.post.
Post(r) ==
    /\ run[r].pc = "post"
    /\ LET rec == PostCall(Embedded(run[r])) IN
         \/ session /\ Step(r, Posted([rec EXCEPT !.postOk = TRUE,
                                                  !.pub = @ \cup {guid(r)}]))
         \/ Step(r, [rec EXCEPT !.pc = "postLogin"])
    /\ UNCHANGED <<trunc, env, file, session, nRuns, hist>>

\* Lines 195-199: agent.login of the post flow; a throw is caught at
\* line 207 and postToBluesky returns.
PostLogin(r) ==
    /\ run[r].pc = "postLogin"
    /\ LET rec == [run[r] EXCEPT !.nPostLogin = @ + 1] IN
         \/ /\ Step(r, [rec EXCEPT !.postLoginOk = TRUE, !.pc = "post2"])
            /\ session' = TRUE
         \/ /\ Step(r, Posted(rec))
            /\ UNCHANGED session
    /\ UNCHANGED <<trunc, env, file, nRuns, hist>>

\* Lines 200-209: the second agent.post.
Post2(r) ==
    /\ run[r].pc = "post2"
    /\ LET rec == PostCall(run[r]) IN
         \/ session /\ Step(r, Posted([rec EXCEPT !.postOk = TRUE,
                                                  !.pub = @ \cup {guid(r)}]))
         \/ Step(r, Posted(rec))
    /\ UNCHANGED <<trunc, env, file, session, nRuns, hist>>

\* Line 296 resolves and the loop goes on to the next entry.
Wake(r) ==
    /\ run[r].pc = "sleep"
    /\ Step(r, Iterate(run[r], run[r].idx + 1))
    /\ UNCHANGED <<trunc, env, file, session, nRuns, hist>>

\* savePostedItems, line 299: fs.writeFile replaces the file by the record;
\* a failed write leaves the old file or a truncated one, and the throw is
\* caught at line 300.
Save(r) ==
    /\ run[r].pc = "save"
    /\ \/ /\ file' = JsonFile(run[r].postedItems)
          /\ Step(r, [run[r] EXCEPT !.pc = "done"])
          /\ lastSaved' = SomeFeed(run[r].items)
       \/ /\ file' \in {file, CorruptFile}
          /\ Step(r, [run[r] EXCEPT !.pc = "failed"])
          /\ lastSaved' = NoFeed
    /\ UNCHANGED <<trunc, env, session, nRuns, posted>>

Ended == {"skipped", "nofeed", "failed", "done"}

\* Mutant: processRSSFeed has no catch block, and a run that threw never
\* returns.
Return_NotAfterThrow(r) ==
    /\ run[r].pc \in Ended \ {"failed"}
    /\ Step(r, NoRun)
    /\ posted' = posted \cup run[r].calls
    /\ UNCHANGED <<trunc, env, file, session, nRuns, lastSaved>>

\* Mutant: the catch block saves the record before the run returns.
Return_CatchSaves(r) ==
    /\ run[r].pc \in Ended
    /\ Step(r, NoRun)
    /\ posted' = posted \cup run[r].calls
    /\ file' = IF run[r].pc = "failed" THEN JsonFile(run[r].postedItems) ELSE file
    /\ UNCHANGED <<trunc, env, session, nRuns, lastSaved>>

\* processRSSFeed returns: at line 219, at line 233, after the catch block
\* or after the save.
Return(r) ==
    /\ run[r].pc \in Ended
    /\ Step(r, NoRun)
    /\ posted' = posted \cup run[r].calls
    /\ UNCHANGED <<trunc, env, file, session, nRuns, lastSaved>>

\* Time passes.
Tick ==
    /\ ticks < MaxTicks
    /\ \E d \in TickSteps : now' = now + d
    /\ ticks' = ticks + 1
    /\ UNCHANGED <<trunc, file, session, nRuns, run, hist>>

RunStep(r) ==
    \/ Load(r) \/ FetchFeed(r) \/ Page(r) \/ Image(r)
    \/ Upload(r) \/ UploadLogin(r) \/ Upload2(r)
    \/ Post(r) \/ PostLogin(r) \/ Post2(r)
    \/ Wake(r) \/ Save(r) \/ Return(r)

Next ==
    \/ \E r \in Runs : Call(r) \/ RunStep(r)
    \/ Tick

Spec == Init /\ [][Next]_vars

\* Every call the runs await returns or throws, and every timer fires: a
\* run that can take a step takes one.
FairSpec == Spec /\ \A r \in Runs : WF_vars(RunStep(r))

\* Runs that do not overlap: processRSSFeed is called only when no call is
\* in flight.
SeqCall(r) ==
    /\ \A q \in Runs : run[q].pc = "idle"
    /\ Call(r)

SeqNext ==
    \/ \E r \in Runs : SeqCall(r) \/ RunStep(r)
    \/ Tick

SeqSpec == Init /\ [][SeqNext]_vars

\* A feed document of nine entries.
LongFeed == <<"b1", "b2", "b3", "b4", "b5", "b6", "b7", "b8", "b9">>

\* Lines 224-246 when the feed URL serves the nine entries.
FetchLongFeed(r) ==
    /\ run[r].pc = "fetch"
    /\ LET rec == run[r] IN
         \/ Step(r, [rec EXCEPT !.pc = "failed"])
         \/ Step(r, [rec EXCEPT !.pc = "nofeed"])
         \/ Step(r, Iterate([rec EXCEPT !.items = LongFeed], 1))
    /\ UNCHANGED <<trunc, env, file, session, nRuns, hist>>

LongStep(r) ==
    \/ Load(r) \/ FetchLongFeed(r) \/ Page(r) \/ Image(r)
    \/ Upload(r) \/ UploadLogin(r) \/ Upload2(r)
    \/ Post(r) \/ PostLogin(r) \/ Post2(r)
    \/ Wake(r) \/ Save(r) \/ Return(r)

LongNext ==
    \/ \E r \in Runs : SeqCall(r) \/ LongStep(r)
    \/ Tick

\* Runs that do not overlap, on the feed of nine entries.
LongSpec == Init /\ [][LongNext]_vars

\* The titles of at most MaxTitleLen characters.
Titles == UNION {[1..n -> Chars] : n \in 0..MaxTitleLen}

\* postToBluesky is about to call truncateTitle(title, url.length), line 166.
TitleInit ==
    /\ now = StartTime
    /\ ticks = 0
    /\ file = MissingFile
    /\ session = FALSE
    /\ nRuns = 0
    /\ run = [r \in Runs |-> NoRun]
    /\ posted = {}
    /\ lastSaved = NoFeed
    /\ \E t \in Titles, u \in UrlLengths :
         trunc = [title |-> t, urlLength |-> u, returned |-> FALSE, text |-> <<>>]

\* truncateTitle returns.
TruncateTitle ==
    /\ ~trunc.returned
    /\ trunc' = [trunc EXCEPT !.returned = TRUE,
                              !.text = truncateTitle(trunc.title, trunc.urlLength)]
    /\ UNCHANGED <<now, ticks, file, session, nRuns, run, posted, lastSaved>>

TitleNext == TruncateTitle

\* The calls of truncateTitle, over the titles and url lengths above.
TitleSpec == TitleInit /\ [][TitleNext]_vars

\* ------------------------------------------------------------- claims
\* The ids the store file holds.
PersistedIds == IF file.state = "json" THEN Range(file.data.guids) ELSE {}

\* The ids the run recorded itself, after the ones it loaded.
Recorded(r) == Range(run[r].postedItems.guids) \ Range(run[r].loaded.guids)

\* A call for the current entry is in flight or was made.
InEntry == {"page", "image", "upload", "uploadLogin", "upload2",
            "post", "postLogin", "post2"}

\* C1: no entry id is passed to agent.post by more than one run, whether
\* the runs follow each other or overlap.
C1_NeverRepublished ==
    \A r \in Runs :
      /\ run[r].calls \cap posted = {}
      /\ \A q \in Runs \ {r} : run[r].calls \cap run[q].calls = {}

\* C2: the store is persisted after every publish, before the next entry
\* is started: while a run works on an entry, the ids it recorded before
\* are in the store file, and at most one id it published is not.
C2_PersistedAfterEachPublish ==
    \A r \in Runs :
      /\ run[r].pc \in InEntry => Recorded(r) \subseteq PersistedIds
      /\ Cardinality(run[r].pub \ PersistedIds) <= 1

\* C3: no page fetch, image download, upload or post call is made for an
\* entry whose id is in the record, as loaded or as extended earlier in the
\* same run.
C3_NoCallForRecordedEntry ==
    \A r \in Runs :
      /\ run[r].pc \in InEntry =>
           /\ guid(r) \notin Range(run[r].postedItems.guids)
           /\ guid(r) \notin Range(run[r].loaded.guids)
      /\ run[r].calls \cap Range(run[r].loaded.guids) = {}

\* The scenario of the specification: the store holds a1, the feed returns
\* a1 and a2, only a2 is processed and the record ends as a1, a2.
C3_Witness ==
    \E r \in Runs :
      /\ run[r].pc = "done"
      /\ run[r].loaded.guids = <<"a1">>
      /\ run[r].items = <<"a1", "a2">>
      /\ run[r].calls = {"a2"}
      /\ run[r].postedItems.guids = <<"a1", "a2">>

\* C4 (under SeqSpec): once a run has saved the store, a run that follows
\* it and gets the same feed makes no agent.post call, whether the gate
\* stops it or it fetches the feed.
C4_NoPostOnUnchangedFeed ==
    \A r \in Runs :
      /\ lastSaved.some
      /\ \/ run[r].pc = "skipped"
         \/ run[r].pc \in InEntry \cup {"sleep", "save"}
              /\ run[r].items = lastSaved.items
      => run[r].calls = {} /\ run[r].pc \notin InEntry \cup {"sleep"}

\* A run that follows a saved run passed the gate, got the same non-empty
\* feed and reached the end of its loop.
C4_Witness ==
    \E r \in Runs :
      /\ lastSaved.some
      /\ run[r].pc = "save"
      /\ run[r].items = lastSaved.items
      /\ Len(run[r].items) > 0
      /\ run[r].calls = {}

\* C5: the persisted identifier set is append-only: a store write contains
\* every id the store held before it.
C5_AppendOnly ==
    [][(file' # file /\ file.state = "json" /\ file'.state = "json")
         => Range(file.data.guids) \subseteq Range(file'.data.guids)]_vars

\* C6: lastFetchTime only advances: a store write holds a lastFetchTime at
\* least that of the store it replaces.
C6_LastFetchTimeAdvances ==
    [][(/\ file' # file
        /\ file.state = "json" /\ file.data.defT
        /\ file'.state = "json" /\ file'.data.defT)
         => file'.data.lastFetchTime >= file.data.lastFetchTime]_vars

\* C7: the id is recorded whether the publish succeeded or failed: once
\* postToBluesky has returned the id is in the record, the record that is
\* saved holds every id passed to agent.post, and a run makes no post call
\* for an id of the record it loaded.
C7_RecordedWhateverTheOutcome ==
    \A r \in Runs :
      /\ run[r].pc = "sleep" => guid(r) \in Range(run[r].postedItems.guids)
      /\ run[r].pc \in {"sleep", "save", "done"} =>
           run[r].calls \subseteq Range(run[r].postedItems.guids)
      /\ run[r].calls \cap Range(run[r].loaded.guids) = {}

\* A run saved a record holding an id whose publish failed.
C7_Witness ==
    \E r \in Runs :
      /\ run[r].pc = "done"
      /\ run[r].calls # {}
      /\ run[r].pub = {}
      /\ run[r].calls \subseteq PersistedIds

\* The first agent.uploadBlob of the current entry failed.
FirstUploadFailed(rec) ==
    rec.nUpload >= 1 /\ ~(rec.nUpload = 1 /\ rec.thumb = "blob")

\* C8 as stated: when the first upload fails, there is exactly one login
\* and exactly one more upload; a second failure gives no blob reference
\* and the post is created without a thumb.
C8_Original ==
    \A r \in Runs :
      /\ run[r].pc = "post" /\ FirstUploadFailed(run[r]) =>
           /\ run[r].nUploadLogin = 1
           /\ run[r].nUpload = 2
      /\ run[r].thumb = "null" => run[r].pc = "post" /\ ~HasThumb(run[r])

\* C8 amended: when the first upload fails, there is exactly one login;
\* when the login succeeds there is exactly one more upload, when it fails
\* there is none; a failed login or a second failed upload gives no blob
\* reference, and the post is created without a thumb.
C8_UploadRetry ==
    \A r \in Runs :
      /\ run[r].pc = "post" /\ FirstUploadFailed(run[r]) =>
           /\ run[r].nUploadLogin = 1
           /\ run[r].uploadLoginOk => run[r].nUpload = 2
           /\ ~run[r].uploadLoginOk => run[r].nUpload = 1 /\ run[r].thumb = "null"
      /\ run[r].nUpload <= 2 /\ run[r].nUploadLogin <= 1
      /\ run[r].thumb = "null" => run[r].pc = "post" /\ ~HasThumb(run[r])

\* The second upload failed and the post call is made without a thumb.
C8_Witness ==
    \E r \in Runs :
      /\ run[r].pc = "post"
      /\ run[r].nUpload = 2
      /\ run[r].nUploadLogin = 1
      /\ run[r].thumb = "null"

\* The first agent.post of the current entry failed.
FirstPostFailed(rec) ==
    rec.nPost >= 1 /\ ~(rec.nPost = 1 /\ rec.postOk)

\* C9 as stated: whenever the first post fails, a login is made and the
\* post is attempted exactly once more; no entry gets more than two
\* attempts.
C9_Original ==
    \A r \in Runs :
      /\ run[r].pc = "sleep" /\ FirstPostFailed(run[r]) =>
           /\ run[r].nPostLogin = 1
           /\ run[r].nPost = 2
      /\ run[r].nPost <= 2

\* C9 amended: whenever the first post fails, a login is made; when the
\* login succeeds the post is attempted exactly once more, when it fails
\* the post is not attempted again; no entry gets more than two attempts
\* or more than one login.
C9_PostRetry ==
    \A r \in Runs :
      /\ run[r].pc = "sleep" /\ FirstPostFailed(run[r]) =>
           /\ run[r].nPostLogin = 1
           /\ run[r].postLoginOk => run[r].nPost = 2
           /\ ~run[r].postLoginOk => run[r].nPost = 1 /\ ~run[r].postOk
      /\ run[r].nPost <= 2 /\ run[r].nPostLogin <= 1

\* Both post attempts of an entry failed.
C9_Witness ==
    \E r \in Runs :
      /\ run[r].pc = "sleep"
      /\ run[r].nPost = 2
      /\ run[r].nPostLogin = 1
      /\ ~run[r].postOk

\* The run of slot r as the read of the store file completes.
AtLoad(r) ==
    [run[r] EXCEPT !.postedItems = loadPostedItems(file),
                   !.loaded = loadPostedItems(file),
                   !.currentTime = now]

CanFetch(r) == ENABLED (Load(r) /\ run'[r].pc = "fetch")
CanSkip(r) == ENABLED (Load(r) /\ run'[r].pc = "skipped")

\* The gate of a run that loads lastFetchTime = t0 at t0 + D: it fetches
\* iff D is at least the threshold sampled; with D < lo it never fetches,
\* with D >= hi it always fetches, and in between both may happen.
GateBetween(lo, hi) ==
    \A r \in Runs :
      run[r].pc = "load" /\ loadPostedItems(file).defT =>
        LET D == now - loadPostedItems(file).lastFetchTime IN
          /\ \A th \in getRandomInterval :
               (Gate(AtLoad(r), th).pc = "fetch") <=> (D >= th)
          /\ D < lo => ~CanFetch(r)
          /\ D >= hi => ~CanSkip(r)
          /\ lo <= D /\ D < hi => CanFetch(r) /\ CanSkip(r)

\* C10 as stated: the threshold ranges over 30 to 120 minutes.
C10_Original == GateBetween(30, 120)

\* C10 amended: the threshold ranges over 30 to 60 minutes: a run with
\* D < 30 never fetches, a run with D >= 60 always fetches, and for every
\* D with 30 <= D < 60 both outcomes are possible.
C10_Gate == GateBetween(30, 60)

\* Minutes between the lastFetchTime a run loaded and its reading of the clock.
Elapsed(r) == run[r].currentTime - run[r].loaded.lastFetchTime

\* A run was stopped by the gate with 30 <= D < 60, and another with the
\* same D was not.
C10_Witness ==
    \E r, q \in Runs :
      /\ run[r].pc = "skipped" /\ run[q].pc = "fetch"
      /\ Elapsed(r) = Elapsed(q)
      /\ 30 <= Elapsed(r) /\ Elapsed(r) < 60

\* The run of slot r takes a step.
Steps(r) == run'[r] # run[r]

\* C11: a run the gate stops has no side effects: it made no feed fetch, no
\* page fetch, no upload, no login and no post, its record is the one it
\* loaded, and neither the step that stops it nor its return writes the
\* store file or changes the session.
C11_GatedRunNoEffects ==
    /\ [](\A r \in Runs : run[r].pc = "skipped" =>
             run[r] = [NoRun EXCEPT !.pc = "skipped",
                                    !.postedItems = run[r].loaded,
                                    !.loaded = run[r].loaded,
                                    !.currentTime = run[r].currentTime])
    /\ [][\A r \in Runs :
            /\ run[r].pc = "load" /\ run'[r].pc = "skipped" =>
                  file' = file /\ session' = session
            /\ run[r].pc = "skipped" /\ Steps(r) =>
                  file' = file /\ session' = session /\ run'[r] = NoRun]_vars

\* A run was stopped by the gate while the store held a record.
C11_Witness ==
    \E r \in Runs :
      /\ run[r].pc = "skipped"
      /\ file.state = "json"
      /\ Len(file.data.guids) > 0
      /\ run[r].currentTime - file.data.lastFetchTime < minMinutes

\* C12: a run considers only the first 8 entries of the feed: it enriches,
\* publishes or records at most 8 entries, and makes no call for an entry
\* at position 9 or later.
C12_FirstEightOnly ==
    \A r \in Runs :
      /\ run[r].pc \in InEntry \cup {"sleep"} => run[r].idx <= 8
      /\ Cardinality(run[r].calls) <= 8
      /\ Len(run[r].postedItems.guids) - Len(run[r].loaded.guids) <= 8

\* parser.parseURL threw: the catch block was entered before the loop, with
\* no items.
FeedFailed(rec) == rec.pc = "failed" /\ rec.idx = 0 /\ rec.items = <<>>

\* C13: a feed fetch failure aborts the run without mutating the identifier
\* set: the run made no upload, login or post call, its record holds the
\* ids it loaded, and neither the failing step nor the return changes the
\* ids the store file holds.
C13_FeedFailureAborts ==
    /\ [](\A r \in Runs : FeedFailed(run[r]) =>
             /\ run[r].calls = {}
             /\ run[r].nUpload = 0 /\ run[r].nUploadLogin = 0
             /\ run[r].nPost = 0 /\ run[r].nPostLogin = 0
             /\ run[r].postedItems.guids = run[r].loaded.guids)
    /\ [][\A r \in Runs :
            /\ run[r].pc = "fetch" /\ FeedFailed(run'[r]) =>
                  PersistedIds' = PersistedIds /\ session' = session
            /\ FeedFailed(run[r]) /\ Steps(r) =>
                  /\ PersistedIds' = PersistedIds /\ session' = session
                  /\ run'[r] = NoRun]_vars

\* The feed fetch of a run failed while the store held ids.
C13_Witness ==
    \E r \in Runs :
      /\ FeedFailed(run[r])
      /\ PersistedIds # {}
      /\ Range(run[r].loaded.guids) # {}

\* The page of the current entry failed: postToBluesky is called and the
\* try block never got past the page.
PageFailed(rec) == rec.pc = "post" /\ ~rec.pageOk

\* C14: a failure to fetch or parse an entry's page does not abort the run:
\* the failing step calls postToBluesky for the same entry, the embed has
\* no thumb, an agent.post call is made for the entry, and once
\* postToBluesky has returned the id is recorded and the loop goes on.
C14_PageFailureStillPosts ==
    /\ [](\A r \in Runs :
             /\ PageFailed(run[r]) => ~HasThumb(run[r]) /\ run[r].nUpload = 0
             /\ run[r].pc = "sleep" =>
                   /\ guid(r) \in run[r].calls
                   /\ guid(r) \in Range(run[r].postedItems.guids))
    /\ [][\A r \in Runs :
            /\ run[r].pc = "page" /\ Steps(r) /\ run'[r].pc # "image" =>
                  /\ PageFailed(run'[r])
                  /\ run'[r].idx = run[r].idx
            /\ PageFailed(run[r]) /\ Steps(r) =>
                  /\ run'[r].pc \in {"postLogin", "sleep"}
                  /\ run'[r].idx = run[r].idx
                  /\ guid(r) \in run'[r].calls
            /\ run[r].pc \in {"postLogin", "post2"} /\ Steps(r) =>
                  /\ run'[r].pc \in {"post2", "sleep"}
                  /\ run'[r].idx = run[r].idx
            /\ run[r].pc = "sleep" /\ Steps(r) =>
                  run'[r].pc \in {"page", "save"}]_vars

\* The page of the last entry of the feed failed and postToBluesky is
\* called for it, the agent holding a session.
C14_Witness ==
    \E r \in Runs :
      /\ PageFailed(run[r])
      /\ session
      /\ run[r].idx = Len(run[r].items)
      /\ run[r].idx > 1

\* The loop threw on its first test of the record: guids is undefined.
LoopThrew(rec) == rec.pc = "failed" /\ rec.idx = 0 /\ rec.items # <<>>

\* C15: load fails soft: whatever the store file holds (missing, not
\* parseable, or parseable but not of the shape {guids, lastFetchTime}),
\* the record a run loaded has both fields, it is the empty record with
\* lastFetchTime = 0 unless the file held a record of that shape, the run
\* passes the gate on the empty record, and the loop never throws on the
\* record.
C15_LoadFailsSoft ==
    \A r \in Runs :
      run[r].pc \notin {"idle", "load"} =>
        /\ run[r].loaded.defG /\ run[r].loaded.defT
        /\ run[r].loaded = EmptyItems => run[r].pc # "skipped"
        /\ ~LoopThrew(run[r])

\* The text ends in the marker.
EndsIn(text, marker) ==
    /\ Len(text) >= Len(marker)
    /\ SubSeq(text, Len(text) - Len(marker) + 1, Len(text)) = marker

\* s is the first characters of t.
IsPrefix(s, t) == Len(s) <= Len(t) /\ s = SubSeq(t, 1, Len(s))

\* C16 as stated: truncate returns a string of at most 300 - urlLen - 4
\* characters, which ends in a two-character ellipsis iff the decoded,
\* markup-stripped title exceeded the budget, and is the decoded title when
\* the title is within the budget.
C16_Original ==
    trunc.returned =>
      LET budget == 300 - trunc.urlLength - 4
          decoded == decodedTitle(trunc.title) IN
        /\ Len(trunc.text) <= budget
        /\ EndsIn(trunc.text, <<".", ".">>) <=> Len(decoded) > budget
        /\ Len(decoded) <= budget => trunc.text = decoded

\* C16 amended: truncateTitle returns a string of at most
\* max(300 - urlLen - 5, 0) + 3 characters; when the decoded,
\* markup-stripped title is longer than 300 - urlLen - 5 it returns the
\* first 300 - urlLen - 5 characters of it, trimmed, followed by three
\* dots, and otherwise the decoded title unchanged.
C16_Truncate ==
    trunc.returned =>
      LET budget == 300 - trunc.urlLength - 5
          room == IF budget < 0 THEN 0 ELSE budget
          decoded == decodedTitle(trunc.title) IN
        /\ Len(trunc.text) <= room + 3
        /\ trunc.urlLength <= 295 => Len(trunc.text) <= 300 - trunc.urlLength - 2
        /\ Len(decoded) <= budget => trunc.text = decoded
        /\ Len(decoded) > budget =>
              /\ EndsIn(trunc.text, <<".", ".", ".">>)
              /\ LET kept == SubSeq(trunc.text, 1, Len(trunc.text) - 3) IN
                    /\ IsPrefix(kept, decoded)
                    /\ Len(kept) <= room
                    /\ kept = Trim(kept)
                    /\ \A i \in (Len(kept) + 1)..room : decoded[i] = " "

\* A title with markup and an entity was cut to the budget and given the
\* three dots.
C16_Witness ==
    /\ trunc.returned
    /\ \E i \in DOMAIN trunc.title : trunc.title[i] = "&gt;"
    /\ Len(StripTags(trunc.title)) < Len(trunc.title)
    /\ Len(decodedTitle(trunc.title)) > 300 - trunc.urlLength - 5
    /\ Len(trunc.text) = 300 - trunc.urlLength - 2
    /\ trunc.urlLength <= 295

\* C17: image compression is a quality ladder from 100 down to 40 in steps
\* of 5: the image is encoded at most 13 times (12 re-encodes), and the
\* buffer handed to the upload is at most 900,000 bytes long or encoded at
\* the quality floor of 40.
C17_QualityLadder ==
    \A r \in Runs :
      run[r].pc = "upload" =>
        /\ run[r].imageBuffer.encodes <= 13
        /\ run[r].imageBuffer.size <= 900000 \/ run[r].imageBuffer.quality = 40

SaveFailed(rec) == rec.pc = "failed" /\ rec.idx >= 1

\* C19 (under FairSpec): every run that is called returns, whichever of its
\* calls fail; a failed store write ends the run in the catch block, and
\* neither that step nor the return adds an id to the store file.
C19_RunReturns ==
    /\ \A r \in Runs : (run[r].pc # "idle") ~> (run[r].pc = "idle")
    /\ [][\A r \in Runs :
            /\ run[r].pc = "save" /\ Steps(r) /\ run'[r].pc # "done" =>
                  /\ SaveFailed(run'[r])
                  /\ PersistedIds' \subseteq PersistedIds
            /\ run[r].pc = "failed" /\ Steps(r) =>
                  run'[r] = NoRun /\ file' = file]_vars

\* The store write of a run failed after both of its post attempts for an
\* entry had failed, and the ids it recorded are not in the store file.
C19_Witness ==
    \E r \in Runs :
      /\ SaveFailed(run[r])
      /\ run[r].calls # {} /\ run[r].pub = {}
      /\ Recorded(r) # {}
      /\ Recorded(r) \cap PersistedIds = {}

\* The run passed the gate and ended before the loop: parser.parseURL
\* threw, or the feed has no items.
EndedBeforeLoop(rec) == rec.pc = "nofeed" \/ FeedFailed(rec)

\* C20 (under SeqSpec): a run that passed the gate and ended on a feed
\* fetch failure or on a feed without items holds the stamp in memory only:
\* the store file still loads as the record the run loaded, the return
\* leaves the file as it is, and so the gate of the next run tests the old
\* lastFetchTime.
C20_StampNotPersisted ==
    /\ [](\A r \in Runs : EndedBeforeLoop(run[r]) =>
             /\ run[r].postedItems.lastFetchTime = run[r].currentTime
             /\ loadPostedItems(file) = run[r].loaded
             /\ \A th \in getRandomInterval :
                   TooSoon(now, loadPostedItems(file), th)
                     <=> TooSoon(now, run[r].loaded, th))
    /\ [][\A r \in Runs :
            /\ run[r].pc = "fetch" /\ EndedBeforeLoop(run'[r]) => file' = file
            /\ EndedBeforeLoop(run[r]) /\ Steps(r) =>
                  file' = file /\ run'[r] = NoRun]_vars

\* A run got a feed without items; had its stamp been saved the gate would
\* stop a run called now, and on the store file as it is a run called now
\* may fetch.
C20_Witness ==
    \E r \in Runs :
      /\ run[r].pc = "nofeed"
      /\ file.state = "json"
      /\ file.data.lastFetchTime < run[r].currentTime
      /\ \A th \in getRandomInterval : TooSoon(now, run[r].postedItems, th)
      /\ \E th \in getRandomInterval : ~TooSoon(now, loadPostedItems(file), th)

====
